---- MODULE Spec2Model ----
(***************************************************************************)
(* Model of the connection-details HTTP service (app.go).                  *)
(*                                                                         *)
(* One request handler, connectionHandler, builds a ConnectionDetails      *)
(* record from the request, the host's network configuration, a            *)
(* geolocation lookup and runtime statistics, and writes it as JSON or as  *)
(* an HTML page.  net/http runs the handler concurrently, one goroutine    *)
(* per request; the model has NumProcs such goroutines, each stepping      *)
(* through the handler's stages.                                           *)
(*                                                                         *)
(* Go strings on which the code does string work (Split, Join, Contains,   *)
(* ParseIP) are sequences of one-character strings.  Strings the code only *)
(* copies are TLA+ strings.                                                *)
(***************************************************************************)
EXTENDS Integers, Sequences, FiniteSets, TLC

\* ---------------------------------------------------------------- bounds
\* Number of requests in flight at once (goroutines running the handler).
NumProcs == 2
\* Largest number of values (lines) of one request header.
MaxVals == 2
\* Largest number of addresses bound to one network interface.
MaxAddrs == 2

Procs == 1..NumProcs

\* ------------------------------------------------------- string literals
SepColon == <<":">>  \* ":"
SepSemi == <<";">>  \* ";"
SepDot == <<".">>  \* "."
JSONType == <<"a", "p", "p", "l", "i", "c", "a", "t", "i", "o", "n", "/", "j", "s", "o", "n">>  \* "application/json"
CurlTag == <<"c", "u", "r", "l">>  \* "curl"
AcceptHTML == <<"t", "e", "x", "t", "/", "h", "t", "m", "l">>  \* "text/html"
AcceptBoth == <<"t", "e", "x", "t", "/", "h", "t", "m", "l", ",", " ", "a", "p", "p", "l", "i", "c", "a", "t", "i", "o", "n", "/", "j", "s", "o", "n">>  \* "text/html, application/json"
UACurl == <<"c", "u", "r", "l", "/", "8", ".", "1">>  \* "curl/8.1"
UABrowser == <<"M", "o", "z", "i", "l", "l", "a", "/", "5", ".", "0">>  \* "Mozilla/5.0"
XFFPublic == <<"8", ".", "8", ".", "8", ".", "8">>  \* "8.8.8.8"
XFFBad == <<"n", "o", "t", "-", "a", "n", "-", "i", "p">>  \* "not-an-ip"
XFFChain == <<"1", ".", "1", ".", "1", ".", "1", ",", " ", "8", ".", "8", ".", "8", ".", "8">>  \* "1.1.1.1, 8.8.8.8"
XFFv6 == <<"2", "0", "0", "1", ":", "d", "b", "8", ":", ":", "7">>  \* "2001:db8::7"
AddrV4 == <<"2", "0", "3", ".", "0", ".", "1", "1", "3", ".", "9", ":", "5", "0", "0", "0">>  \* "203.0.113.9:5000"
AddrV6 == <<"[", "2", "0", "0", "1", ":", "d", "b", "8", ":", ":", "7", "]", ":", "4", "4", "3">>  \* "[2001:db8::7]:443"
AddrV6Loop == <<"[", ":", ":", "1", "]", ":", "5", "0", "0", "0">>  \* "[::1]:5000"
TagA == <<"a">>  \* "a"
TagB == <<"b">>  \* "b"

EmptyStr == <<>>

\* ---------------------------------------------------- library operations
\* strings.Contains(s, sub)
Contains(s, sub) ==
    \E i \in 0..(Len(s) - Len(sub)) : SubSeq(s, i + 1, i + Len(sub)) = sub

\* strings.Split(s, sep) for a one-character separator: the pieces between
\* the occurrences of sep, at least one piece.
RECURSIVE Split(_, _)
Split(s, sep) ==
    IF \A i \in 1..Len(s) : s[i] # sep[1]
    THEN <<s>>
    ELSE LET i == CHOOSE k \in 1..Len(s) :
                      s[k] = sep[1] /\ \A j \in 1..(k - 1) : s[j] # sep[1]
         IN  <<SubSeq(s, 1, i - 1)>> \o Split(SubSeq(s, i + 1, Len(s)), sep)

\* strings.Join(v, sep)
RECURSIVE Join(_, _)
Join(v, sep) ==
    IF Len(v) = 0 THEN EmptyStr
    ELSE IF Len(v) = 1 THEN v[1]
    ELSE v[1] \o sep \o Join(Tail(v), sep)

\* http.Header.Get(key): the first value of the header, "" when absent.
HeaderGet(h, key) ==
    IF key \in DOMAIN h /\ Len(h[key]) > 0 THEN h[key][1] ELSE EmptyStr

\* map assignment m[k] = v
MapPut(m, k, v) == [x \in DOMAIN m \cup {k} |-> IF x = k THEN v ELSE m[x]]

EmptyMap == [x \in {} |-> EmptyStr]

Digits == {"0", "1", "2", "3", "4", "5", "6", "7", "8", "9"}
HexDigits == Digits \cup {"a", "b", "c", "d", "e", "f", "A", "B", "C", "D", "E", "F"}

DigitVal(c) == CASE c = "0" -> 0 [] c = "1" -> 1 [] c = "2" -> 2 [] c = "3" -> 3
                 [] c = "4" -> 4 [] c = "5" -> 5 [] c = "6" -> 6 [] c = "7" -> 7
                 [] c = "8" -> 8 [] c = "9" -> 9

RECURSIVE DecVal(_)
DecVal(s) == IF Len(s) = 0 THEN 0
             ELSE DecVal(SubSeq(s, 1, Len(s) - 1)) * 10 + DigitVal(s[Len(s)])

\* One dotted-decimal field of an IPv4 address: 1 to 3 digits, no leading
\* zero, at most 255.
IsOctet(s) ==
    /\ Len(s) \in 1..3
    /\ \A i \in 1..Len(s) : s[i] \in Digits
    /\ (Len(s) > 1 => s[1] # "0")
    /\ DecVal(s) <= 255

IsIPv4Text(s) ==
    LET f == Split(s, SepDot)
    IN  Len(f) = 4 /\ \A i \in 1..4 : IsOctet(f[i])

\* IPv6 text made of hexadecimal groups and at most one "::" (no zone, no
\* embedded dotted-decimal tail).
IsIPv6Text(s) ==
    LET g == Split(s, SepColon)
        dbl == {i \in 1..(Len(s) - 1) : s[i] = ":" /\ s[i + 1] = ":"}
        full == {i \in 1..Len(g) : g[i] # EmptyStr}
    IN  /\ Len(s) >= 2
        /\ \A i \in 1..Len(s) : s[i] \in HexDigits \cup {":"}
        /\ \A i \in 1..Len(g) : Len(g[i]) <= 4
        /\ (s[1] = ":" => s[2] = ":")
        /\ (s[Len(s)] = ":" => s[Len(s) - 1] = ":")
        /\ Cardinality(dbl) <= 1
        /\ IF dbl = {} THEN Len(g) = 8 ELSE Cardinality(full) <= 7

\* net.ParseIP(s): the parsed address, or NilIP when s is not the text of an
\* IP address.
NilIP == [family |-> "nil", text |-> EmptyStr]
ParseIP(s) ==
    IF IsIPv4Text(s) THEN [family |-> "ip4", text |-> s]
    ELSE IF IsIPv6Text(s) THEN [family |-> "ip6", text |-> s]
    ELSE NilIP

\* ------------------------------------------------------ host environment
\* Addresses a host interface can carry.  bytes are the octets of an IPv4
\* address or the eight groups of an IPv6 address; text is IP.String() and
\* cidr is Addr.String().  kind is the dynamic type behind net.Addr.
LoopbackV4 == [kind |-> "IPNet", bytes |-> <<127, 0, 0, 1>>,
               text |-> "127.0.0.1", cidr |-> "127.0.0.1/8"]
LinkLocalV6 == [kind |-> "IPNet", bytes |-> <<65152, 0, 0, 0, 0, 0, 0, 1>>,
                text |-> "fe80::1", cidr |-> "fe80::1/64"]
PrivateV4 == [kind |-> "IPNet", bytes |-> <<10, 0, 0, 5>>,
              text |-> "10.0.0.5", cidr |-> "10.0.0.5/24"]
SecondV4 == [kind |-> "IPNet", bytes |-> <<192, 168, 1, 2>>,
             text |-> "192.168.1.2", cidr |-> "192.168.1.2/24"]
\* net.Interfaces and net.InterfaceAddrs hand out *net.IPNet values on Unix hosts.
Addresses == {LoopbackV4, LinkLocalV6, PrivateV4, SecondV4}
IfaceNames == {"lo", "eth0"}

\* net.IP.IsLoopback
IsLoopback(a) ==
    \/ Len(a.bytes) = 4 /\ a.bytes[1] = 127
    \/ a.bytes = <<0, 0, 0, 0, 0, 0, 0, 1>>

\* net.IP.To4() != nil
HasTo4(a) == Len(a.bytes) = 4

SeqsUpTo(S, n) == UNION {[1..k -> S] : k \in 0..n}

\* One interface as net.Interfaces() lists it: its name, and what its
\* Addrs() call returns (an error, or its addresses in order).
Ifaces == {[Name |-> nm, addrsErr |-> FALSE, addrs |-> as] :
               nm \in IfaceNames, as \in SeqsUpTo(Addresses, MaxAddrs)}
           \cup {[Name |-> nm, addrsErr |-> TRUE, addrs |-> <<>>] : nm \in IfaceNames}

\* The interface lists net.Interfaces() can return: names are distinct.
IfaceLists == {l \in SeqsUpTo(Ifaces, Cardinality(IfaceNames)) :
                  \A i \in 1..Len(l), j \in 1..Len(l) : i # j => l[i].Name # l[j].Name}

RECURSIVE Flatten(_)
Flatten(l) == IF Len(l) = 0 THEN <<>> ELSE l[1].addrs \o Flatten(Tail(l))

\* The host as the handler can observe it.  A failing os.Hostname() yields
\* "", a failing net.Interfaces() or net.InterfaceAddrs() yields no list.
MkHost(name, ifErr, list, adErr) ==
    [hostname |-> name, ifacesErr |-> ifErr, ifaces |-> list, addrsErr |-> adErr,
     goos |-> "linux", goarch |-> "amd64", goversion |-> "go1.21", numCPU |-> 4,
     memory |-> "12 MB"]

TypicalHost ==
    MkHost("web-1", FALSE,
           <<[Name |-> "lo", addrsErr |-> FALSE, addrs |-> <<LoopbackV4>>],
             [Name |-> "eth0", addrsErr |-> FALSE, addrs |-> <<PrivateV4, SecondV4>>]>>,
           FALSE)
DegradedHost == MkHost("", TRUE, <<>>, TRUE)

SmallHosts == {TypicalHost, DegradedHost}
AllHosts == {MkHost("web-1", FALSE, l, e) : l \in IfaceLists, e \in BOOLEAN}
            \cup {MkHost("web-1", TRUE, <<>>, e) : e \in BOOLEAN}

\* net.InterfaceAddrs(): every address of the host, in interface order.
InterfaceAddrs(h) == IF h.addrsErr THEN <<>> ELSE Flatten(h.ifaces)

\* ------------------------------------------------------- geo database
\* A City record as the handler reads it.
ZeroCity == [IsoCode |-> "", Country |-> "", City |-> "", Latitude |-> 0,
             Longitude |-> 0, Postal |-> ""]
KnownCity == [IsoCode |-> "US", Country |-> "United States", City |-> "Mountain View",
              Latitude |-> 37, Longitude |-> -122, Postal |-> "94043"]

\* What db.City(parsedIP) can return: an error, or a record (the zero
\* record for an address the database does not cover).
LookupResults == {[err |-> TRUE, record |-> ZeroCity],
                  [err |-> FALSE, record |-> ZeroCity],
                  [err |-> FALSE, record |-> KnownCity]}

\* ------------------------------------------------------------- requests
HeaderNames == {"Accept", "User-Agent", "X-Forwarded-For", "X-Tag"}

\* http.Header: the headers present, each with its values in order.
MkHeader(acc, ua, xff, tag) ==
    LET all == [n \in HeaderNames |->
                   CASE n = "Accept" -> acc [] n = "User-Agent" -> ua
                     [] n = "X-Forwarded-For" -> xff [] n = "X-Tag" -> tag]
    IN  [n \in {m \in HeaderNames : all[m] # <<>>} |-> all[n]]

MkRequest(addr, method, hdr) ==
    [RemoteAddr |-> addr, Host |-> "example.test", Method |-> method, Header |-> hdr]

AcceptLines == {<<>>, <<AcceptHTML>>, <<JSONType>>, <<AcceptBoth>>,
                <<AcceptHTML, JSONType>>}
AgentLines == {<<>>, <<UACurl>>, <<UABrowser>>}
ForwardLines == {<<>>, <<XFFPublic>>, <<XFFBad>>, <<XFFChain>>, <<XFFv6>>}
TagLines == {v \in SeqsUpTo({TagA, TagB}, MaxVals) : TRUE}
RemoteAddrs == {AddrV4, AddrV6, AddrV6Loop}

AllRequests == {MkRequest(a, "GET", MkHeader(acc, ua, xff, tag)) :
                   a \in RemoteAddrs, acc \in AcceptLines, ua \in AgentLines,
                   xff \in ForwardLines, tag \in TagLines}

SmallRequests ==
    {MkRequest(AddrV4, "GET", MkHeader(<<>>, <<UACurl>>, <<>>, <<>>)),
     MkRequest(AddrV4, "GET", MkHeader(<<AcceptHTML>>, <<UABrowser>>, <<XFFPublic>>, <<>>)),
     MkRequest(AddrV4, "POST", MkHeader(<<JSONType>>, <<>>, <<XFFBad>>, <<TagA, TagB>>)),
     MkRequest(AddrV6, "GET", MkHeader(<<>>, <<UABrowser>>, <<>>, <<>>))}

NoRequest == MkRequest(EmptyStr, "", EmptyMap)

\* ---------------------------------------------------- ConnectionDetails
\* The zero value of ConnectionDetails.
ZeroIPInfo == [PublicIP |-> EmptyStr, CountryCode |-> "", Country |-> "", City |-> "",
               Latitude |-> 0, Longitude |-> 0, Organization |-> "", PostalCode |-> ""]
ZeroDetails ==
    [Request |-> [RemoteAddr |-> EmptyStr, Host |-> "", Method |-> "",
                  UserAgent |-> EmptyStr, ForwardedFor |-> EmptyStr, Headers |-> EmptyMap],
     Server |-> [Hostname |-> "", ServerIP |-> "", Interfaces |-> EmptyMap],
     IPInfo |-> ZeroIPInfo,
     System |-> [Platform |-> "", Arch |-> "", GoVersion |-> "", CPUNum |-> 0,
                 Memory |-> ""]]

\* The response before the handler has written anything.
NoResponse == [status |-> 0, contentType |-> "", page |-> FALSE, indent |-> "",
               doc |-> ZeroDetails]

\* ------------------------------------------------------------- state
VARIABLES
    host,       \* the host environment the process runs on
    handles,    \* number of geo-database handles currently open in the process
    pc,         \* pc[p]: the stage of the handler goroutine p
    req,        \* req[p]: the request p is handling
    details,    \* details[p]: connectionHandler's local record
    ipDetails,  \* ipDetails[p]: getPublicIPInfo's local record
    resp,       \* resp[p]: what p has written to its ResponseWriter
    opens,      \* opens[p]: geoip2.Open calls made for the current request
    closes,     \* closes[p]: db.Close calls made for the current request
    geoExit     \* geoExit[p]: the return statement getPublicIPInfo left by

vars == <<host, handles, pc, req, details, ipDetails, resp, opens, closes, geoExit>>

\* Variant of FlattenHeaders that keeps only the first value of each header.
FlattenHeadersFirst(h) == [k \in DOMAIN h |-> h[k][1]]

\* ------------------------------------------------- the handler's parts
\* The header loop of connectionHandler.
FlattenHeaders(h) == [k \in DOMAIN h |-> Join(h[k], SepSemi)]

\* http.Request.UserAgent()
UserAgent(r) == HeaderGet(r.Header, "User-Agent")

\* The request fields of the record.
RequestDetails(r) ==
    [RemoteAddr |-> r.RemoteAddr, Host |-> r.Host, Method |-> r.Method,
     UserAgent |-> UserAgent(r),
     ForwardedFor |-> HeaderGet(r.Header, "X-Forwarded-For"),
     Headers |-> FlattenHeaders(r.Header)]

\* Variant of PutAddrs that does not overwrite an entry already present.
RECURSIVE PutAddrsKeepFirst(_, _, _)
PutAddrsKeepFirst(m, name, addrs) ==
    IF Len(addrs) = 0 THEN m
    ELSE IF name \in DOMAIN m THEN PutAddrsKeepFirst(m, name, Tail(addrs))
    ELSE PutAddrsKeepFirst(MapPut(m, name, addrs[1].cidr), name, Tail(addrs))

\* The inner loop of getNetworkInterfaces: one assignment per address.
RECURSIVE PutAddrs(_, _, _)
PutAddrs(m, name, addrs) ==
    IF Len(addrs) = 0 THEN m
    ELSE PutAddrs(MapPut(m, name, addrs[1].cidr), name, Tail(addrs))

\* Variant of ScanIfaces that stops at the first interface whose Addrs() fails.
RECURSIVE ScanIfacesAbort(_, _)
ScanIfacesAbort(m, ifaces) ==
    IF Len(ifaces) = 0 THEN m
    ELSE IF ifaces[1].addrsErr THEN m
    ELSE ScanIfacesAbort(PutAddrs(m, ifaces[1].Name, ifaces[1].addrs), Tail(ifaces))

\* The outer loop of getNetworkInterfaces: an interface whose Addrs() fails
\* is passed over.
RECURSIVE ScanIfaces(_, _)
ScanIfaces(m, ifaces) ==
    IF Len(ifaces) = 0 THEN m
    ELSE IF ifaces[1].addrsErr THEN ScanIfaces(m, Tail(ifaces))
    ELSE ScanIfaces(PutAddrs(m, ifaces[1].Name, ifaces[1].addrs), Tail(ifaces))

getNetworkInterfaces(h) ==
    IF h.ifacesErr THEN EmptyMap ELSE ScanIfaces(EmptyMap, h.ifaces)

\* Variant of ServerIP without the break: the last matching address wins.
RECURSIVE ServerIPLast(_)
ServerIPLast(addrs) ==
    IF Len(addrs) = 0 THEN ""
    ELSE LET rest == ServerIPLast(Tail(addrs))
         IN  IF rest # "" THEN rest
             ELSE IF addrs[1].kind = "IPNet" /\ ~IsLoopback(addrs[1]) /\ HasTo4(addrs[1])
                  THEN addrs[1].text
                  ELSE ""

\* The server-IP loop of connectionHandler: the first *net.IPNet address
\* that is not loopback and has a 4-byte form; "" when the loop finds none.
RECURSIVE ServerIP(_)
ServerIP(addrs) ==
    IF Len(addrs) = 0 THEN ""
    ELSE IF addrs[1].kind = "IPNet" /\ ~IsLoopback(addrs[1]) /\ HasTo4(addrs[1])
         THEN addrs[1].text
         ELSE ServerIP(Tail(addrs))

ServerFields(h) ==
    [Hostname |-> h.hostname, ServerIP |-> ServerIP(InterfaceAddrs(h)),
     Interfaces |-> getNetworkInterfaces(h)]

SystemFields(h) ==
    [Platform |-> h.goos, Arch |-> h.goarch, GoVersion |-> h.goversion,
     CPUNum |-> h.numCPU, Memory |-> h.memory]

\* The IP handed to getPublicIPInfo.
CallerIP(r) ==
    LET ip == HeaderGet(r.Header, "X-Forwarded-For")
    IN  IF ip = EmptyStr THEN Split(r.RemoteAddr, SepColon)[1] ELSE ip

\* Variant of isJSON that looks at the Accept header only.
isJSONAcceptOnly(r) == Contains(HeaderGet(r.Header, "Accept"), JSONType)

\* The response-type decision.
isJSON(r) ==
    \/ Contains(HeaderGet(r.Header, "Accept"), JSONType)
    \/ Contains(UserAgent(r), CurlTag)

\* Variant of Populate that also fills Organization.
PopulateWithOrg(info, record) ==
    [info EXCEPT !.CountryCode = record.IsoCode, !.Country = record.Country,
                 !.City = record.City, !.Latitude = record.Latitude,
                 !.Longitude = record.Longitude, !.PostalCode = record.Postal,
                 !.Organization = record.Country]

\* The assignments of getPublicIPInfo after a successful lookup.
Populate(info, record) ==
    [info EXCEPT !.CountryCode = record.IsoCode, !.Country = record.Country,
                 !.City = record.City, !.Latitude = record.Latitude,
                 !.Longitude = record.Longitude, !.PostalCode = record.Postal]

\* Variant of Written that answers 500 when the geo fields are empty.
WrittenOrError(r, d) ==
    IF d.IPInfo.CountryCode = ""
    THEN [status |-> 500, contentType |-> "text/plain", page |-> FALSE,
          indent |-> "", doc |-> d]
    ELSE IF isJSON(r)
    THEN [status |-> 200, contentType |-> "application/json", page |-> FALSE,
          indent |-> "", doc |-> d]
    ELSE [status |-> 200, contentType |-> "text/html", page |-> TRUE,
          indent |-> "  ", doc |-> d]

\* What the handler writes: the status net/http sends with the first write
\* of a handler that never calls WriteHeader, the content type, and the body
\* (the bare encoding of doc, or the page with the indented encoding of doc).
Written(r, d) ==
    IF isJSON(r)
    THEN [status |-> 200, contentType |-> "application/json", page |-> FALSE,
          indent |-> "", doc |-> d]
    ELSE [status |-> 200, contentType |-> "text/html", page |-> TRUE,
          indent |-> "  ", doc |-> d]

\* Variant of Collect in which the record is one package-level variable
\* that every goroutine writes.
CollectShared(p, r) ==
    /\ pc[p] = "idle"
    /\ req' = [req EXCEPT ![p] = r]
    /\ details' = [q \in Procs |-> [ZeroDetails EXCEPT !.Request = RequestDetails(r)]]
    /\ pc' = [pc EXCEPT ![p] = "server"]
    /\ UNCHANGED <<host, handles, ipDetails, resp, opens, closes, geoExit>>

\* -------------------------------------------------------------- actions
\* connectionHandler is entered for request r: the request fields.
Collect(p, r) ==
    /\ pc[p] = "idle"
    /\ req' = [req EXCEPT ![p] = r]
    /\ details' = [details EXCEPT ![p] = [ZeroDetails EXCEPT !.Request = RequestDetails(r)]]
    /\ pc' = [pc EXCEPT ![p] = "server"]
    /\ UNCHANGED <<host, handles, ipDetails, resp, opens, closes, geoExit>>

\* Server details and system info.
ServerDetails(p) ==
    /\ pc[p] = "server"
    /\ details' = [details EXCEPT ![p].Server = ServerFields(host),
                                  ![p].System = SystemFields(host)]
    /\ pc' = [pc EXCEPT ![p] = "geo"]
    /\ UNCHANGED <<host, handles, req, ipDetails, resp, opens, closes, geoExit>>

\* getPublicIPInfo is called and opens the database.  A failed open returns
\* the record with only PublicIP set.
GeoOpen(p) ==
    /\ pc[p] = "geo"
    /\ opens' = [opens EXCEPT ![p] = @ + 1]
    /\ LET ipd == [ZeroDetails EXCEPT !.IPInfo.PublicIP = CallerIP(req[p])]
       IN  \/ /\ ipDetails' = [ipDetails EXCEPT ![p] = ipd]
              /\ handles' = handles + 1
              /\ pc' = [pc EXCEPT ![p] = "lookup"]
              /\ UNCHANGED <<details, geoExit>>
           \/ /\ details' = [details EXCEPT ![p].IPInfo = ipd.IPInfo]
              /\ geoExit' = [geoExit EXCEPT ![p] = "open-failed"]
              /\ pc' = [pc EXCEPT ![p] = "respond"]
              /\ UNCHANGED <<ipDetails, handles>>
    /\ UNCHANGED <<host, req, resp, closes>>

\* Variant of GeoLookup that closes the database only after a successful
\* lookup (a Close at the end of the function instead of a deferred one).
GeoLookupLeak(p) ==
    /\ pc[p] = "lookup"
    /\ LET ip == ipDetails[p].IPInfo.PublicIP
           parsedIP == ParseIP(ip)
           leave(info, exit, closed) ==
               /\ details' = [details EXCEPT ![p].IPInfo = info]
               /\ geoExit' = [geoExit EXCEPT ![p] = exit]
               /\ closes' = [closes EXCEPT ![p] = IF closed THEN @ + 1 ELSE @]
               /\ handles' = IF closed THEN handles - 1 ELSE handles
       IN  IF parsedIP = NilIP
           THEN leave(ipDetails[p].IPInfo, "bad-ip", FALSE)
           ELSE \E res \in LookupResults :
                  IF res.err
                  THEN leave(ipDetails[p].IPInfo, "lookup-error", FALSE)
                  ELSE leave(Populate(ipDetails[p].IPInfo, res.record), "ok", TRUE)
    /\ ipDetails' = [ipDetails EXCEPT ![p] = ZeroDetails]
    /\ pc' = [pc EXCEPT ![p] = "respond"]
    /\ UNCHANGED <<host, req, resp, opens>>

\* The rest of getPublicIPInfo: parse, look up, populate; the deferred Close
\* runs at whichever return is taken.
GeoLookup(p) ==
    /\ pc[p] = "lookup"
    /\ LET ip == ipDetails[p].IPInfo.PublicIP
           parsedIP == ParseIP(ip)
       IN  IF parsedIP = NilIP
           THEN /\ details' = [details EXCEPT ![p].IPInfo = ipDetails[p].IPInfo]
                /\ geoExit' = [geoExit EXCEPT ![p] = "bad-ip"]
           ELSE \E res \in LookupResults :
                  IF res.err
                  THEN /\ details' = [details EXCEPT ![p].IPInfo = ipDetails[p].IPInfo]
                       /\ geoExit' = [geoExit EXCEPT ![p] = "lookup-error"]
                  ELSE /\ details' = [details EXCEPT
                                        ![p].IPInfo = Populate(ipDetails[p].IPInfo, res.record)]
                       /\ geoExit' = [geoExit EXCEPT ![p] = "ok"]
    /\ closes' = [closes EXCEPT ![p] = @ + 1]
    /\ handles' = handles - 1
    /\ ipDetails' = [ipDetails EXCEPT ![p] = ZeroDetails]
    /\ pc' = [pc EXCEPT ![p] = "respond"]
    /\ UNCHANGED <<host, req, resp, opens>>

\* The response is chosen and written; the handler returns.
Respond(p) ==
    /\ pc[p] = "respond"
    /\ resp' = [resp EXCEPT ![p] = Written(req[p], details[p])]
    /\ pc' = [pc EXCEPT ![p] = "done"]
    /\ UNCHANGED <<host, handles, req, details, ipDetails, opens, closes, geoExit>>

\* The response has been sent; the goroutine's locals are gone and it is
\* free to take the next request.
Return(p) ==
    /\ pc[p] = "done"
    /\ req' = [req EXCEPT ![p] = NoRequest]
    /\ details' = [details EXCEPT ![p] = ZeroDetails]
    /\ resp' = [resp EXCEPT ![p] = NoResponse]
    /\ opens' = [opens EXCEPT ![p] = 0]
    /\ closes' = [closes EXCEPT ![p] = 0]
    /\ geoExit' = [geoExit EXCEPT ![p] = "none"]
    /\ pc' = [pc EXCEPT ![p] = "idle"]
    /\ UNCHANGED <<host, handles, ipDetails>>

\* ------------------------------------------------------- specifications
InitWith(hosts) ==
    /\ host \in hosts
    /\ handles = 0
    /\ pc = [p \in Procs |-> "idle"]
    /\ req = [p \in Procs |-> NoRequest]
    /\ details = [p \in Procs |-> ZeroDetails]
    /\ ipDetails = [p \in Procs |-> ZeroDetails]
    /\ resp = [p \in Procs |-> NoResponse]
    /\ opens = [p \in Procs |-> 0]
    /\ closes = [p \in Procs |-> 0]
    /\ geoExit = [p \in Procs |-> "none"]

\* Concurrent requests on one of a few hosts.
Init == InitWith(SmallHosts)
Serve(p) == \E r \in SmallRequests : Collect(p, r)
Next == \E p \in Procs :
            Serve(p) \/ ServerDetails(p) \/ GeoOpen(p) \/ GeoLookup(p) \/ Respond(p)
            \/ Return(p)
Spec == Init /\ [][Next]_vars

\* One request at a time, every request of the bounded request space.
InitReq == InitWith({TypicalHost})
ServeAny == \E r \in AllRequests : Collect(1, r)
NextReq == ServeAny \/ ServerDetails(1) \/ GeoOpen(1) \/ GeoLookup(1) \/ Respond(1)
               \/ Return(1)
SpecReq == InitReq /\ [][NextReq]_vars

\* One request at a time, every host of the bounded host space.
InitNet == InitWith(AllHosts)
ServeOne == \E r \in {MkRequest(AddrV4, "GET", MkHeader(<<>>, <<UACurl>>, <<>>, <<>>))} :
                Collect(1, r)
NextNet == ServeOne \/ ServerDetails(1) \/ GeoOpen(1) \/ GeoLookup(1) \/ Respond(1)
               \/ Return(1)
SpecNet == InitNet /\ [][NextNet]_vars

\* ----------------------------------------------------------------- claims
Returned(p) == pc[p] = "done"
PastServer(p) == pc[p] \in {"geo", "lookup", "respond", "done"}
PastGeo(p) == pc[p] \in {"respond", "done"}
InFlight(p) == pc[p] # "idle"

\* C1: every request is answered with status 200, whatever the database
\* open, the IP parse and the lookup did; no stage of the handler produces
\* another status.
AlwaysStatus200 ==
    \A p \in Procs :
        /\ resp[p].status \in {0, 200}
        /\ Returned(p) => resp[p].status = 200

\* A request whose caller IP is malformed has been answered with 200.
MalformedIPAnswered200 ==
    \E p \in Procs :
        /\ Returned(p) /\ geoExit[p] = "bad-ip"
        /\ resp[p].status = 200
        /\ details[p].IPInfo.CountryCode = ""

\* The body written for record d in JSON mode, and in HTML mode.
IsJSONBody(r, d) ==
    r.contentType = "application/json" /\ ~r.page /\ r.indent = "" /\ r.doc = d
IsHTMLBody(r, d) ==
    r.contentType = "text/html" /\ r.page /\ r.indent = "  " /\ r.doc = d

SomeAcceptLineHasJSON(r) ==
    /\ "Accept" \in DOMAIN r.Header
    /\ \E i \in 1..Len(r.Header["Accept"]) : Contains(r.Header["Accept"][i], JSONType)
FirstAcceptLineHasJSON(r) ==
    /\ "Accept" \in DOMAIN r.Header
    /\ Contains(r.Header["Accept"][1], JSONType)
AgentHasCurl(r) ==
    /\ "User-Agent" \in DOMAIN r.Header
    /\ Contains(r.Header["User-Agent"][1], CurlTag)

\* C2 as stated: the response is JSON exactly when the Accept header
\* contains "application/json" (on any of its lines) or the user agent
\* contains "curl"; otherwise it is the HTML page.
NegotiationByAcceptHeader ==
    \A p \in Procs :
        Returned(p) =>
            IF SomeAcceptLineHasJSON(req[p]) \/ AgentHasCurl(req[p])
            THEN IsJSONBody(resp[p], details[p])
            ELSE IsHTMLBody(resp[p], details[p])

\* C2 as amended: the response is JSON exactly when the first Accept line
\* contains "application/json" or the user agent contains "curl";
\* otherwise it is the HTML page with the indented JSON of the same record.
NegotiationByFirstAcceptLine ==
    \A p \in Procs :
        Returned(p) =>
            IF FirstAcceptLineHasJSON(req[p]) \/ AgentHasCurl(req[p])
            THEN IsJSONBody(resp[p], details[p])
            ELSE IsHTMLBody(resp[p], details[p])

\* A browser request whose second Accept line names JSON got the HTML page,
\* and a curl request without Accept got JSON.
SecondAcceptLineGivesHTML ==
    \E p \in Procs :
        /\ Returned(p)
        /\ "Accept" \in DOMAIN req[p].Header
        /\ req[p].Header["Accept"] = <<AcceptHTML, JSONType>>
        /\ ~AgentHasCurl(req[p])
        /\ IsHTMLBody(resp[p], details[p])

\* C3: getPublicIPInfo returns a record whose public_ip is its argument
\* unchanged and whose organization is empty on every path; unless open,
\* parse and lookup all succeeded, every other geo field is empty or zero.
GeoFailureLeavesEmptyRecord ==
    \A p \in Procs :
        PastGeo(p) =>
            LET info == details[p].IPInfo
                ip == CallerIP(req[p])
            IN  /\ info.PublicIP = ip
                /\ info.Organization = ""
                /\ geoExit[p] \in {"open-failed", "bad-ip", "lookup-error", "ok"}
                /\ (ParseIP(ip) = NilIP => geoExit[p] \in {"open-failed", "bad-ip"})
                /\ (geoExit[p] # "ok" =>
                       /\ info.CountryCode = "" /\ info.Country = "" /\ info.City = ""
                       /\ info.PostalCode = "" /\ info.Latitude = 0 /\ info.Longitude = 0)

\* A lookup has succeeded and filled the geo fields, organization excepted.
GeoFieldsPopulated ==
    \E p \in Procs :
        /\ PastGeo(p) /\ geoExit[p] = "ok"
        /\ details[p].IPInfo.CountryCode = "US"
        /\ details[p].IPInfo.Organization = ""
        /\ details[p].IPInfo.PublicIP = XFFPublic

\* The remote address without its port: what precedes the last colon,
\* without the brackets of an IPv6 literal.
StripPort(a) ==
    LET i == CHOOSE k \in 1..Len(a) : a[k] = ":" /\ \A j \in (k + 1)..Len(a) : a[j] # ":"
        h == SubSeq(a, 1, i - 1)
    IN  IF Len(h) >= 2 /\ h[1] = "[" /\ h[Len(h)] = "]"
        THEN SubSeq(h, 2, Len(h) - 1)
        ELSE h

\* C4: the caller IP is the X-Forwarded-For value verbatim when it is not
\* empty, and otherwise the remote address stripped of its port, for IPv4
\* and bracketed IPv6 remote addresses alike.
CallerIPIsForwardedOrHost ==
    \A p \in Procs :
        PastGeo(p) =>
            LET xff == HeaderGet(req[p].Header, "X-Forwarded-For")
            IN  details[p].IPInfo.PublicIP =
                    IF xff # EmptyStr THEN xff ELSE StripPort(req[p].RemoteAddr)

\* Start of the i-th value in the joined string (0-based offset).
RECURSIVE JoinOffset(_, _)
JoinOffset(v, i) == IF i = 1 THEN 0 ELSE JoinOffset(v, i - 1) + Len(v[i - 1]) + 1

RecordsBuiltFromOwnRequest ==
    \A p \in Procs :
        /\ InFlight(p) =>
              /\ details[p].Request.RemoteAddr = req[p].RemoteAddr
              /\ details[p].Request.Host = req[p].Host
              /\ details[p].Request.Method = req[p].Method
              /\ details[p].Request.UserAgent = HeaderGet(req[p].Header, "User-Agent")
              /\ details[p].Request.ForwardedFor = HeaderGet(req[p].Header, "X-Forwarded-For")
              /\ DOMAIN details[p].Request.Headers = DOMAIN req[p].Header
        /\ PastServer(p) =>
              /\ details[p].Server.Hostname = host.hostname
              /\ details[p].System.CPUNum = host.numCPU
        /\ pc[p] = "lookup" => ipDetails[p].IPInfo.PublicIP = CallerIP(req[p])
        /\ PastGeo(p) => details[p].IPInfo.PublicIP = CallerIP(req[p])
        /\ Returned(p) => resp[p].doc = details[p]

\* Two requests with different attributes are in flight together, one
\* answered and the other still before its geo lookup.
TwoRequestsInterleaved ==
    \E p \in Procs, q \in Procs :
        /\ p # q
        /\ Returned(p) /\ pc[q] \in {"server", "geo", "lookup"}
        /\ req[p].RemoteAddr # req[q].RemoteAddr
        /\ details[p].Request # details[q].Request
        /\ resp[p].doc.Request.RemoteAddr = req[p].RemoteAddr

\* C7: each call of getPublicIPInfo opens the database once, and every
\* successful open is closed once before the call returns, on every exit
\* path; the handles open in the process are those of the calls between
\* their open and their return.
DatabaseOpenedAndClosedPerCall ==
    /\ \A p \in Procs :
          /\ pc[p] \in {"idle", "server", "geo"} => opens[p] = 0 /\ closes[p] = 0
          /\ pc[p] = "lookup" => opens[p] = 1 /\ closes[p] = 0
          /\ PastGeo(p) =>
                /\ opens[p] = 1
                /\ closes[p] = IF geoExit[p] = "open-failed" THEN 0 ELSE 1
    /\ handles = Cardinality({p \in Procs : pc[p] = "lookup"})
    /\ (\A p \in Procs : pc[p] \in {"idle", "done"}) => handles = 0

\* A call that left by the lookup-error return has closed its handle, and
\* no handle is open.
ClosedAfterLookupError ==
    \E p \in Procs :
        /\ Returned(p) /\ geoExit[p] = "lookup-error"
        /\ opens[p] = 1 /\ closes[p] = 1
        /\ handles = 0

\* The interfaces whose Addrs() succeeded with at least one address.
Listed(h) == {i \in 1..Len(h.ifaces) :
                 ~h.ifaces[i].addrsErr /\ Len(h.ifaces[i].addrs) > 0}

\* C8 as stated: each interface name maps to the interface's first
\* address; an interface whose Addrs() fails is skipped; the mapping is
\* empty when net.Interfaces() fails.
InterfacesMapToFirstAddress ==
    \A p \in Procs :
        PastServer(p) =>
            LET M == details[p].Server.Interfaces
            IN  IF host.ifacesErr THEN M = EmptyMap
                ELSE /\ DOMAIN M = {host.ifaces[i].Name : i \in Listed(host)}
                     /\ \A i \in Listed(host) :
                            M[host.ifaces[i].Name] = host.ifaces[i].addrs[1].cidr

\* C8 as amended: each interface name maps to the interface's last
\* enumerated address; an interface whose Addrs() fails (or is empty) is
\* skipped; the mapping is empty when net.Interfaces() fails.
InterfacesMapToLastAddress ==
    \A p \in Procs :
        PastServer(p) =>
            LET M == details[p].Server.Interfaces
            IN  IF host.ifacesErr THEN M = EmptyMap
                ELSE /\ DOMAIN M = {host.ifaces[i].Name : i \in Listed(host)}
                     /\ \A i \in Listed(host) :
                            LET a == host.ifaces[i].addrs
                            IN  M[host.ifaces[i].Name] = a[Len(a)].cidr

\* An interface whose Addrs() fails comes first and is skipped, and the
\* next one, with two different addresses, is in the mapping.
FailedInterfaceSkipped ==
    \E p \in Procs :
        /\ PastServer(p)
        /\ ~host.ifacesErr /\ Len(host.ifaces) = 2
        /\ host.ifaces[1].addrsErr
        /\ host.ifaces[2].addrs = <<PrivateV4, SecondV4>>
        /\ DOMAIN details[p].Server.Interfaces = {host.ifaces[2].Name}

\* C9: an interface with several addresses has exactly one entry in the
\* mapping, and it is the last address enumerated for that interface.
LastAddressOverwritesEarlier ==
    \A p \in Procs :
        PastServer(p) /\ ~host.ifacesErr =>
            \A i \in 1..Len(host.ifaces) :
                LET f == host.ifaces[i]
                    M == details[p].Server.Interfaces
                IN  Len(f.addrs) >= 2 =>
                        /\ f.Name \in DOMAIN M
                        /\ M[f.Name] = f.addrs[Len(f.addrs)].cidr
                        /\ \A j \in 1..(Len(f.addrs) - 1) :
                               f.addrs[j] # f.addrs[Len(f.addrs)] => M[f.Name] # f.addrs[j].cidr

\* An interface with two different addresses is mapped to the second.
SecondAddressKept ==
    \E p \in Procs :
        /\ PastServer(p) /\ ~host.ifacesErr
        /\ \E i \in 1..Len(host.ifaces) :
               /\ host.ifaces[i].addrs = <<SecondV4, LinkLocalV6>>
               /\ details[p].Server.Interfaces[host.ifaces[i].Name] = LinkLocalV6.cidr

\* The addresses the server-IP scan accepts.
Routable4(a) == ~IsLoopback(a) /\ HasTo4(a)

\* C10: server_ip is the first host address, in enumeration order, that is
\* neither loopback nor non-IPv4; it is empty when there is none or when
\* net.InterfaceAddrs() fails.
ServerIPIsFirstRoutableV4 ==
    \A p \in Procs :
        PastServer(p) =>
            LET A == IF host.addrsErr THEN <<>> ELSE Flatten(host.ifaces)
                Q == {i \in 1..Len(A) : Routable4(A[i])}
                ip == details[p].Server.ServerIP
            IN  IF Q = {} THEN ip = ""
                ELSE \E i \in Q : (\A j \in Q : i <= j) /\ ip = A[i].text

\* The scan passed over a loopback and an IPv6 address, took the first
\* IPv4 address after them and ignored a later one.
ScanStoppedAtFirstMatch ==
    \E p \in Procs :
        /\ PastServer(p) /\ ~host.addrsErr
        /\ Flatten(host.ifaces) = <<LoopbackV4, LinkLocalV6, SecondV4, PrivateV4>>
        /\ details[p].Server.ServerIP = "192.168.1.2"
====
